---- MODULE Spec2Model ----
(***************************************************************************)
(* Indigo hedging system: the real-time collector                          *)
(* (src/realtime_data_collector.py) and the dashboard's data path          *)
(* (src/app.py: load_data, collect_realtime_data,                          *)
(* calculate_price_changes, the two hedging signals of main).              *)
(*                                                                         *)
(* Number encoding (floats of the program are fixed-point integers here):  *)
(*   brent_crude, wti_crude, usd_inr, eur_inr, gbp_inr : hundredths        *)
(*       (the code rounds them to 2 decimals)                              *)
(*   jet_fuel, jpy_inr                                  : millionths       *)
(*       (the code rounds them to 6 decimals)                              *)
(*   closes of the crude futures                        : 10^-5            *)
(*   closes of the currency pairs : ten-thousandths (10^-7 for JPY/INR)    *)
(*   rate table of the exchange-rate API: INR in thousandths, EUR and GBP  *)
(*       in hundredths, JPY in tenths                                      *)
(*   random.random()                                    : millionths       *)
(* Values are exact. The code works on float64: where the exact value is   *)
(* a tie of a rounding or lies on a threshold of a comparison, the float   *)
(* the code holds may lie on either side of it. The side is an input of    *)
(* the operation concerned, the sign fp of (float - exact value): -1, 0    *)
(* or 1. Away from ties and thresholds fp has no effect.                   *)
(***************************************************************************)
EXTENDS Integers, Sequences, FiniteSets, TLC

VARIABLES
    store,      \* hedging_data.db: which tables exist and their rows, in rowid order
    clock,      \* the wall clock (naive local time) read by datetime.now(), in
                \* half seconds: an even reading is a whole second (microsecond
                \* 0), which the store keeps as text without a fraction
    world,      \* what the outside may do in this run: the scenarios the
                \* collectors may meet, whether two collectors may overlap,
                \* how the dashboard decodes what its child writes
    procs,      \* the collector processes: where each one is and what it holds
    cycle,      \* what the collector process that ended last saw and did
    dash,       \* the dashboard script: idle, blocked on its child, about to run,
                \* or between the two SELECTs of load_data
    frames,     \* what the dashboard run under way has read so far
    view,       \* what the last dashboard run loaded, computed and rendered
    past        \* what has happened so far: overlapping cycles, clock set back

vars == <<store, clock, world, procs, cycle, dash, frames, view, past>>

\* ------------------------------------------------------------------ bounds
\* Readings of the clock by the fetchers (observations stamped) in one
\* behaviour: two per collection cycle
MaxReads == 4
\* Times the wall clock is set back in one behaviour
MaxSetbacks == 1
\* The signals are swept over the changes -GridMax/10 % .. +GridMax/10 %
GridMax == 30

\* ------------------------------------------------------------- arithmetic
Abs(x) == IF x < 0 THEN -x ELSE x

\* Sign of the error of a float64 against the exact value it stands for
FloatErr == {-1, 0, 1}

\* round(whole + n / d) to an integer (n >= 0, d > 0): the nearest integer;
\* on a tie the side the float lies on, and ties to even for a float that
\* is the tie exactly.
RoundTo(whole, n, d, fp) ==
    LET q == whole + n \div d
        r == n % d
    IN  IF 2 * r < d THEN q
        ELSE IF 2 * r > d THEN q + 1
        ELSE IF fp > 0 THEN q + 1
        ELSE IF fp < 0 THEN q
        ELSE IF q % 2 = 0 THEN q ELSE q + 1

\* round(n / d) to an integer (d > 0)
RoundDiv(n, d, fp) == RoundTo(0, n, d, fp)

\* round(price, 2) of a value given in ten-thousandths: hundredths
Round2(tenThousandths, fp) == RoundDiv(tenThousandths, 100, fp)

\* round(price, 6) of a value given in ten-millionths: millionths
Round6(tenMicro, fp) == RoundDiv(tenMicro, 10, fp)

\* The instruments of the two observations
FuelFields == {"jet_fuel", "brent_crude", "wti_crude"}
CurrencyFields == {"usd_inr", "eur_inr", "gbp_inr", "jpy_inr"}
Fields == FuelFields \cup CurrencyFields

\* --------------------------------------------------- Fallback Generator
\* random.random() in millionths
RandomDraws == 0..999999

\* random.uniform(lo, hi) = lo + (hi - lo) * random() for the draw r, exact,
\* as whole + n / 10^6 (the product is split to stay within 32 bits)
Uniform(lo, hi, r) ==
    LET a == (hi - lo) * (r \div 1000)
        b == (hi - lo) * (r % 1000)
        n == (a % 1000) * 1000 + b
    IN  [whole |-> lo + a \div 1000 + n \div 1000000, n |-> n % 1000000, d |-> 1000000]

\* round(u, k) of a uniform value given in units of 10^-k
RoundUniform(u, fp) == RoundTo(u.whole, u.n, u.d, fp)

\* One call of random.uniform per field: the draws are independent.
FallbackFuelPrices(draw, fp, now) ==
    [ timestamp   |-> now,
      jet_fuel    |-> RoundUniform(Uniform(2300000, 2600000, draw.jet_fuel), fp.jet_fuel),
      brent_crude |-> RoundUniform(Uniform(6000, 7000, draw.brent_crude), fp.brent_crude),
      wti_crude   |-> RoundUniform(Uniform(5500, 6500, draw.wti_crude), fp.wti_crude) ]

FallbackCurrencyRates(draw, fp, now) ==
    [ timestamp |-> now,
      usd_inr   |-> RoundUniform(Uniform(8800, 9000, draw.usd_inr), fp.usd_inr),
      eur_inr   |-> RoundUniform(Uniform(10200, 10500, draw.eur_inr), fp.eur_inr),
      gbp_inr   |-> RoundUniform(Uniform(11700, 12000, draw.gbp_inr), fp.gbp_inr),
      jpy_inr   |-> RoundUniform(Uniform(570000, 580000, draw.jpy_inr), fp.jpy_inr) ]

\* ------------------------------------------------------- fuel fetcher
\* A ticker history: <<>> is the empty frame, <<c>> holds the latest close c.
Empty(hist) == hist = <<>>
Close(hist) == hist[Len(hist)]

\* What the futures provider answers to the two history() calls: a call
\* raises, or both return a frame. The closes of FuelQuotedTie make the jet
\* fuel price a tie of its rounding (80.1345825).
FuelRaise      == [raise |-> TRUE,  brent |-> <<>>,        wti |-> <<>>]
FuelNoBrent    == [raise |-> FALSE, brent |-> <<>>,        wti |-> <<6000124>>]
FuelNoWti      == [raise |-> FALSE, brent |-> <<6543217>>, wti |-> <<>>]
FuelQuoted     == [raise |-> FALSE, brent |-> <<6543217>>, wti |-> <<6000124>>]
FuelQuotedTie  == [raise |-> FALSE, brent |-> <<6663798>>, wti |-> <<5207992>>]
FuelQuotedZero == [raise |-> FALSE, brent |-> <<0>>,       wti |-> <<0>>]

\* round(close, 2) of a futures close given in 10^-5: hundredths
RoundClose(close, fp) == RoundDiv(close, 1000, fp)

\* round((brent + wti) / 2 * 1.35, 6) of two closes in 10^-5, in millionths:
\* (b + w) / 10^5 * 0.675 is (b + w) * 675 / 100 millionths
JetFuelPrice(brent_price, wti_price, fp) ==
    LET s == brent_price + wti_price
    IN  RoundTo(675 * (s \div 100), 675 * (s % 100), 100, fp)

get_live_fuel_prices(net, now) ==
    IF net.fuel.raise
    THEN [obs |-> FallbackFuelPrices(net.draw, net.fp, now),
          consulted |-> <<"yahoo">>, used |-> "fallback"]
    ELSE IF ~Empty(net.fuel.brent) /\ ~Empty(net.fuel.wti)
    THEN [obs |-> [ timestamp   |-> now,
                    jet_fuel    |-> JetFuelPrice(Close(net.fuel.brent), Close(net.fuel.wti),
                                                 net.fp.jet_fuel),
                    brent_crude |-> RoundClose(Close(net.fuel.brent), net.fp.brent_crude),
                    wti_crude   |-> RoundClose(Close(net.fuel.wti), net.fp.wti_crude) ],
          consulted |-> <<"yahoo">>, used |-> "yahoo"]
    ELSE [obs |-> FallbackFuelPrices(net.draw, net.fp, now),
          consulted |-> <<"yahoo">>, used |-> "fallback"]

\* ---------------------------------------------------- currency fetcher
\* Source A, the exchange-rate API: the GET raises (network error, timeout,
\* body that is no JSON object with a 'rates' entry) or answers with a status
\* and a USD-based rate table, a function from currency codes to rates.
\* Source B, the pair quotes: each history() call raises or returns a frame,
\* empty or holding the latest close.
FullTable == [INR |-> 83127, EUR |-> 85, GBP |-> 73, JPY |-> 1100]
PartTable == [EUR |-> 85, GBP |-> 73]
ZeroTable == [INR |-> 83127, EUR |-> 0, GBP |-> 73, JPY |-> 1100]

Quote(close) == [raise |-> FALSE, hist |-> <<close>>]
NoQuote      == [raise |-> FALSE, hist |-> <<>>]
QuoteError   == [raise |-> TRUE,  hist |-> <<>>]

QuotesAll  == [usd |-> Quote(831234), eur |-> Quote(905678),
               gbp |-> Quote(1051250), jpy |-> Quote(5512347)]
QuotesNone == [usd |-> NoQuote, eur |-> NoQuote, gbp |-> NoQuote, jpy |-> NoQuote]

ReplyOf(table) == [raise |-> FALSE, status |-> 200, rates |-> table]
ReplyBusy      == [raise |-> FALSE, status |-> 503, rates |-> FullTable]
ReplyRaise     == [raise |-> TRUE,  status |-> 0,   rates |-> FullTable]

\* rates.get(code, default)
Get(rates, code, default) == IF code \in DOMAIN rates THEN rates[code] ELSE default

\* Method 1 (lines 68-86). "raised" is the except branch: the GET or the JSON
\* decoding raised, or a cross rate divided by zero. A reply that is not 200
\* falls out of the try block without a result.
SourceA(a, fp, now) ==
    IF a.raise THEN [ok |-> FALSE, raised |-> TRUE]
    ELSE IF a.status # 200 THEN [ok |-> FALSE, raised |-> FALSE]
    ELSE LET inr == Get(a.rates, "INR", 83000)
             eur == Get(a.rates, "EUR", 85)
             gbp == Get(a.rates, "GBP", 73)
             jpy == Get(a.rates, "JPY", 1100)
         IN  IF eur = 0 \/ gbp = 0 \/ jpy = 0
             THEN [ok |-> FALSE, raised |-> TRUE]
             ELSE [ok |-> TRUE, raised |-> FALSE,
                   obs |-> [ timestamp |-> now,
                             usd_inr   |-> RoundDiv(inr, 10, fp.usd_inr),
                             eur_inr   |-> RoundDiv(inr * 10, eur, fp.eur_inr),
                             gbp_inr   |-> RoundDiv(inr * 10, gbp, fp.gbp_inr),
                             jpy_inr   |-> RoundDiv(inr * 10000, jpy, fp.jpy_inr) ]]

\* Method 2 (lines 88-113): one raising history() call abandons the method;
\* an empty USD frame leaves it without a result; an empty frame of another
\* pair is replaced by that pair's literal.
SourceB(b, fp, now) ==
    IF \E p \in {"usd", "eur", "gbp", "jpy"} : b[p].raise
    THEN [ok |-> FALSE, raised |-> TRUE]
    ELSE IF Empty(b.usd.hist) THEN [ok |-> FALSE, raised |-> FALSE]
    ELSE [ok |-> TRUE, raised |-> FALSE,
          obs |-> [ timestamp |-> now,
                    usd_inr   |-> Round2(Close(b.usd.hist), fp.usd_inr),
                    eur_inr   |-> IF ~Empty(b.eur.hist)
                                  THEN Round2(Close(b.eur.hist), fp.eur_inr) ELSE 9000,
                    gbp_inr   |-> IF ~Empty(b.gbp.hist)
                                  THEN Round2(Close(b.gbp.hist), fp.gbp_inr) ELSE 10500,
                    jpy_inr   |-> IF ~Empty(b.jpy.hist)
                                  THEN Round6(Close(b.jpy.hist), fp.jpy_inr) ELSE 550000 ]]

\* Mutant for C3: Method 2 is tried although Method 1 answered
get_live_currency_rates_BFirst(net, now) ==
    LET ra == SourceA(net.a, net.fp, now)
        rb == SourceB(net.b, net.fp, now)
    IN  IF rb.ok
        THEN [obs |-> rb.obs, consulted |-> <<"A", "B">>, used |-> "B"]
        ELSE IF ra.ok
        THEN [obs |-> ra.obs, consulted |-> <<"A">>, used |-> "A"]
        ELSE [obs |-> FallbackCurrencyRates(net.draw, net.fp, now),
              consulted |-> <<"A", "B">>, used |-> "fallback"]

get_live_currency_rates(net, now) ==
    LET ra == SourceA(net.a, net.fp, now)
        rb == SourceB(net.b, net.fp, now)
    IN  IF ra.ok
        THEN [obs |-> ra.obs, consulted |-> <<"A">>, used |-> "A"]
        ELSE IF rb.ok
        THEN [obs |-> rb.obs, consulted |-> <<"A", "B">>, used |-> "B"]
        ELSE [obs |-> FallbackCurrencyRates(net.draw, net.fp, now),
              consulted |-> <<"A", "B">>, used |-> "fallback"]

\* ------------------------------------------- what a cycle meets outside
\* The draws of the random generator, one per field
SameDraw(r) == [f \in Fields |-> r]

\* Floats that are the exact values, above them, below them
NoErr == [f \in Fields |-> 0]
ErrUp == [f \in Fields |-> 1]
ErrDown == [f \in Fields |-> -1]

\* The encoding of the collector's standard output: "utf8" can print the
\* rupee sign of lines 191-194, "narrow" (cp1252, ascii) cannot.
Encodings == {"utf8", "narrow"}

\* What the store does during one call of the writer: it works, it cannot
\* be opened, it rejects the second INSERT (the first one executed, nothing
\* committed), or it stays locked by another connection beyond the busy
\* timeout of 5 s ("database is locked" from an INSERT or from the COMMIT).
DbFaults == {"none", "connect", "insert", "locked"}

\* What one collector process meets: the answers of the network, the draws
\* of the random generator should a fetcher fall back, the sides of the
\* floats, the encoding of its standard output and what the store does.
LiveAll ==
    [fuel |-> FuelQuoted, a |-> ReplyOf(FullTable), b |-> QuotesAll,
     draw |-> SameDraw(0), fp |-> NoErr, stdout |-> "utf8", fault |-> "none"]

LivePartTable == [LiveAll EXCEPT !.a = ReplyOf(PartTable)]

LiveZero == [LiveAll EXCEPT !.fuel = FuelQuotedZero, !.a = ReplyBusy]

\* Every rounding of the live values on a tie, the floats above it
LiveTie ==
    [LiveAll EXCEPT !.fuel = FuelQuotedTie, !.a = ReplyRaise,
                    !.b = [QuotesAll EXCEPT !.usd = Quote(800250), !.eur = NoQuote],
                    !.fp = ErrUp]

UsdOnly ==
    [LiveAll EXCEPT !.fuel = FuelNoWti, !.a = ReplyBusy,
                    !.b = [QuotesNone EXCEPT !.usd = Quote(831234)],
                    !.draw = SameDraw(999999)]

AllDownMixed ==
    [LiveAll EXCEPT !.fuel = FuelRaise, !.a = ReplyRaise,
                    !.b = [QuotesAll EXCEPT !.eur = QuoteError],
                    !.draw = [jet_fuel |-> 0, brent_crude |-> 999999, wti_crude |-> 500000,
                              usd_inr |-> 999999, eur_inr |-> 0, gbp_inr |-> 0,
                              jpy_inr |-> 999999]]

\* Draws that put jet_fuel, brent_crude, eur_inr and jpy_inr on a tie, the
\* floats below it
AllDownNarrow ==
    [LiveAll EXCEPT !.fuel = FuelNoBrent, !.a = ReplyOf(ZeroTable), !.b = QuotesNone,
                    !.draw = [jet_fuel |-> 134365, brent_crude |-> 847500,
                              wti_crude |-> 764000, usd_inr |-> 255000,
                              eur_inr |-> 495000, gbp_inr |-> 449567,
                              jpy_inr |-> 651550],
                    !.fp = ErrDown, !.stdout = "narrow"]

StoreClosed == [LiveAll EXCEPT !.fault = "connect"]

InsertRejected == [LiveAll EXCEPT !.fault = "insert"]

StoreLocked == [LiveAll EXCEPT !.fault = "locked"]

Scenarios ==
    { LiveAll, LivePartTable, LiveZero, LiveTie, UsdOnly, AllDownMixed, AllDownNarrow,
      StoreClosed, InsertRejected, StoreLocked }

\* ------------------------------------------------- Persistence Writer
\* Mutant for C11: the writer overwrites the newest row of a series
\* (INSERT OR REPLACE on the last rowid) instead of adding one.
store_data_in_database_Replace(db, fuel_prices, currency_rates, fault) ==
    IF fault # "none" \/ ~db.fuel_table \/ ~db.currency_table
    THEN [db |-> db, raised |-> TRUE]
    ELSE [db |-> [db EXCEPT
                    !.fuel_prices = IF @ = <<>> THEN <<fuel_prices>>
                                    ELSE [@ EXCEPT ![Len(@)] = fuel_prices],
                    !.currency_rates = IF @ = <<>> THEN <<currency_rates>>
                                       ELSE [@ EXCEPT ![Len(@)] = currency_rates]],
          raised |-> FALSE]

\* Mutant for C13: each INSERT is committed on its own, so a fuel row
\* survives the rejection of the currency row.
store_data_in_database_Autocommit(db, fuel_prices, currency_rates, fault) ==
    IF fault \in {"connect", "locked"} \/ ~db.fuel_table THEN [db |-> db, raised |-> TRUE]
    ELSE IF fault = "insert" \/ ~db.currency_table
    THEN [db |-> [db EXCEPT !.fuel_prices = Append(@, fuel_prices)],
          raised |-> TRUE]
    ELSE [db |-> [db EXCEPT !.fuel_prices = Append(@, fuel_prices),
                            !.currency_rates = Append(@, currency_rates)],
          raised |-> FALSE]

\* store_data_in_database: connect, INSERT into fuel_prices, INSERT into
\* currency_rates, commit. Whatever raises is caught and logged (line 167):
\* the function returns None either way. An insert that is not followed by
\* the commit is rolled back when the connection is dropped.
store_data_in_database(db, fuel_prices, currency_rates, fault) ==
    IF fault = "connect" THEN [db |-> db, raised |-> TRUE]
    ELSE IF ~db.fuel_table THEN [db |-> db, raised |-> TRUE]
    ELSE IF ~db.currency_table THEN [db |-> db, raised |-> TRUE]
    ELSE IF fault = "insert" THEN [db |-> db, raised |-> TRUE]
    ELSE IF fault = "locked" THEN [db |-> db, raised |-> TRUE]
    ELSE [db |-> [db EXCEPT !.fuel_prices = Append(@, fuel_prices),
                            !.currency_rates = Append(@, currency_rates)],
          raised |-> FALSE]

\* ------------------------------------------------------ collection cycle
\* Truth value of a fetcher's result: a non-empty dict.
Truthy(obs) == DOMAIN obs # {}

\* collect_and_store_realtime_data from line 179 on, the two fetchers having
\* returned f and c: both are handed to the writer, the report is printed
\* and True returned. The report holds the rupee sign: on a standard output
\* that cannot encode it print raises, after the commit, and the except
\* branch of line 203 returns False.
collect_and_store_realtime_data(db, f, c, fault, stdout) ==
    IF Truthy(f.obs) /\ Truthy(c.obs)
    THEN LET w == store_data_in_database(db, f.obs, c.obs, fault)
         IN  [db |-> w.db, attempted |-> TRUE, store_raised |-> w.raised,
              print_raised |-> stdout = "narrow", success |-> stdout # "narrow"]
    ELSE [db |-> db, attempted |-> FALSE, store_raised |-> FALSE,
          print_raised |-> FALSE, success |-> FALSE]

\* main of the collector prints one of two messages and returns: the process
\* ends with exit status 0 whatever `success` is.
CollectorExitCode(success) == 0

\* The encodings subprocess.run(text=True) may decode the child's pipes
\* with: that of the locale of the dashboard process.
Pipes == {"utf8", "ascii"}

\* subprocess.run raises UnicodeDecodeError once the child has closed its
\* pipes: the child wrote the rupee sign of lines 192-195 (it reached them
\* and its own stdout could encode it) and the dashboard decodes as ASCII.
DecodeRaises(success, pipe) == success /\ pipe = "ascii"

\* collect_realtime_data of the dashboard: the flag it returns.
collect_realtime_data(proc, returncode) ==
    IF proc = "exited" THEN returncode = 0
    ELSE FALSE      \* "timeout": TimeoutExpired; "error": subprocess.run raised
                    \* otherwise (the child not started, its output not decoded)

\* ------------------------------------------------------ Reader / Loader
ReadLimit == 100

Min(a, b) == IF a < b THEN a ELSE b

\* SQL leaves the order of rows of equal timestamp open. SQLite returns them
\* in rowid order when it sorts the table, and in reverse rowid order when
\* it walks an index on timestamp backwards.
TieOrders == {"rowid", "reverse"}

\* Whether row y, of greater rowid than row x, comes before x
Before(y, x, order) ==
    IF order = "rowid" THEN y.timestamp > x.timestamp ELSE y.timestamp >= x.timestamp

\* ORDER BY timestamp DESC as a merge sort. MergeDesc merges two sorted
\* runs, the rows of `a` having the smaller rowids.
MergeDesc(a, b, order) ==
    IF a = <<>> THEN b
    ELSE IF b = <<>> THEN a
    ELSE IF Before(b[Len(b)], a[1], order) THEN b \o a
    ELSE IF ~Before(b[1], a[Len(a)], order) THEN a \o b
    ELSE LET posA == [i \in 1..Len(a) |->
                        i + Cardinality({j \in 1..Len(b) : Before(b[j], a[i], order)})]
             posB == [j \in 1..Len(b) |->
                        j + Cardinality({i \in 1..Len(a) : ~Before(b[j], a[i], order)})]
         IN  [k \in 1..(Len(a) + Len(b)) |->
                IF \E i \in 1..Len(a) : posA[i] = k
                THEN a[CHOOSE i \in 1..Len(a) : posA[i] = k]
                ELSE b[CHOOSE j \in 1..Len(b) : posB[j] = k]]

RECURSIVE OrderByTimestampDesc(_, _, _, _)
OrderByTimestampDesc(rows, lo, hi, order) ==
    IF lo > hi THEN <<>>
    ELSE IF lo = hi THEN <<rows[lo]>>
    ELSE LET mid == (lo + hi) \div 2
         IN  MergeDesc(OrderByTimestampDesc(rows, lo, mid, order),
                       OrderByTimestampDesc(rows, mid + 1, hi, order), order)

\* SELECT * FROM t ORDER BY timestamp DESC LIMIT 100
SelectNewest(rows, order) ==
    LET sorted == OrderByTimestampDesc(rows, 1, Len(rows), order)
    IN  SubSeq(sorted, 1, Min(Len(sorted), ReadLimit))

\* The text the store holds for a timestamp has no fraction when the
\* microsecond of datetime.now() was 0.
WholeSecond(timestamp) == timestamp % 2 = 0

\* pd.to_datetime(df['timestamp']) raises: a pandas that takes the format
\* of the first text for the whole column (`strict`, pandas 2) raises on a
\* column that mixes texts with and without a fraction; an older pandas
\* parses each text on its own.
to_datetime_raises(df, strict) ==
    /\ strict
    /\ \E i, j \in 1..Len(df) : WholeSecond(df[i].timestamp) # WholeSecond(df[j].timestamp)

\* load_data up to the end of its first SELECT (lines 87-96): no frame when
\* the connection cannot be opened, the query raises (the table is missing)
\* or the timestamps cannot be parsed.
ReadFuel(db, reachable, order, strict) ==
    IF ~reachable \/ ~db.fuel_table THEN [none |-> TRUE, fuel_df |-> <<>>]
    ELSE LET fuel_df == SelectNewest(db.fuel_prices, order)
         IN  IF to_datetime_raises(fuel_df, strict) THEN [none |-> TRUE, fuel_df |-> <<>>]
             ELSE [none |-> FALSE, fuel_df |-> fuel_df]

\* load_data: (None, None) when the connection cannot be opened, a query
\* raises (a table is missing) or pd.to_datetime raises; otherwise the two
\* frames. The two SELECTs are two statements outside any transaction:
\* fuel_read is what the first one returned, db the store as the second one
\* finds it.
load_data(fuel_read, db, order, strict) ==
    IF fuel_read.none THEN [none |-> TRUE, fuel_df |-> <<>>, currency_df |-> <<>>]
    ELSE IF ~db.currency_table
    THEN [none |-> TRUE, fuel_df |-> <<>>, currency_df |-> <<>>]
    ELSE LET currency_df == SelectNewest(db.currency_rates, order)
         IN  IF to_datetime_raises(currency_df, strict)
             THEN [none |-> TRUE, fuel_df |-> <<>>, currency_df |-> <<>>]
             ELSE [none |-> FALSE,
                   fuel_df |-> fuel_read.fuel_df,
                   currency_df |-> currency_df]

\* ---------------------------------------------------- Change Calculator
\* (latest - previous) / previous * 100 in float64 arithmetic. The quotient
\* is kept as its two operands: the value is diff / prev * 100 when prev is
\* not zero; a division by zero gives inf, -inf or nan (0 / 0), not an error.
PctChange(latest, previous) ==
    LET d == latest - previous
    IN  [ kind |-> IF previous # 0 THEN "finite"
                   ELSE IF d > 0 THEN "inf"
                   ELSE IF d < 0 THEN "-inf"
                   ELSE "nan",
          diff |-> d, prev |-> previous ]

\* The literal 0 that changes.get(key, 0) supplies
ZeroChange == [kind |-> "finite", diff |-> 0, prev |-> 1]

\* The exact value of the change c is the threshold tn/td (td > 0)
OnThreshold(c, tn, td) ==
    /\ c.kind = "finite"
    /\ (tn * c.prev) % (100 * td) = 0
    /\ c.diff = (tn * c.prev) \div (100 * td)

\* c > tn/td and c < tn/td for a change c and a threshold tn/td (td > 0),
\* as the code decides them on the float of c: fp is the side of that float
\* against the exact value, which decides for an exact value on the
\* threshold; every comparison with nan is false.
GT(c, tn, td, fp) ==
    CASE c.kind = "inf"  -> TRUE
      [] c.kind = "-inf" -> FALSE
      [] c.kind = "nan"  -> FALSE
      [] c.kind = "finite" ->
            IF OnThreshold(c, tn, td) THEN fp > 0
            ELSE IF c.prev > 0
            THEN c.diff > (tn * c.prev) \div (100 * td)
            ELSE c.diff < -((-(tn * c.prev)) \div (100 * td))

LT(c, tn, td, fp) ==
    CASE c.kind = "inf"  -> FALSE
      [] c.kind = "-inf" -> TRUE
      [] c.kind = "nan"  -> FALSE
      [] c.kind = "finite" ->
            IF OnThreshold(c, tn, td) THEN fp < 0
            ELSE IF c.prev > 0
            THEN c.diff < -((-(tn * c.prev)) \div (100 * td))
            ELSE c.diff > (tn * c.prev) \div (100 * td)

\* abs(c), and the side of the float of abs(c) given the side fp of c's
AbsChange(c) ==
    [ kind |-> IF c.kind = "-inf" THEN "inf" ELSE c.kind,
      diff |-> Abs(c.diff), prev |-> Abs(c.prev) ]

AbsErr(c, fp) ==
    IF (c.diff < 0 /\ c.prev > 0) \/ (c.diff > 0 /\ c.prev < 0) THEN -fp ELSE fp

FuelKeys == {"jet_fuel_change", "brent_change", "wti_change"}
CurrencyKeys == {"usd_inr_change", "eur_inr_change", "gbp_inr_change", "jpy_inr_change"}

\* Mutant for C8: a series of fewer than 2 records gets its keys with 0
calculate_price_changes_ZeroDefault(fuel_df, currency_df) ==
    IF Len(fuel_df) = 0 \/ Len(currency_df) = 0 THEN <<>>
    ELSE
    LET fuel_changes ==
            IF Len(fuel_df) >= 2
            THEN [k \in FuelKeys |->
                    CASE k = "jet_fuel_change" ->
                            PctChange(fuel_df[1].jet_fuel, fuel_df[2].jet_fuel)
                      [] k = "brent_change" ->
                            PctChange(fuel_df[1].brent_crude, fuel_df[2].brent_crude)
                      [] k = "wti_change" ->
                            PctChange(fuel_df[1].wti_crude, fuel_df[2].wti_crude)]
            ELSE [k \in FuelKeys |-> ZeroChange]
        currency_changes ==
            IF Len(currency_df) >= 2
            THEN [k \in CurrencyKeys |->
                    CASE k = "usd_inr_change" ->
                            PctChange(currency_df[1].usd_inr, currency_df[2].usd_inr)
                      [] k = "eur_inr_change" ->
                            PctChange(currency_df[1].eur_inr, currency_df[2].eur_inr)
                      [] k = "gbp_inr_change" ->
                            PctChange(currency_df[1].gbp_inr, currency_df[2].gbp_inr)
                      [] k = "jpy_inr_change" ->
                            PctChange(currency_df[1].jpy_inr, currency_df[2].jpy_inr)]
            ELSE [k \in CurrencyKeys |-> ZeroChange]
    IN  fuel_changes @@ currency_changes

calculate_price_changes(fuel_df, currency_df) ==
    IF Len(fuel_df) = 0 \/ Len(currency_df) = 0 THEN <<>>
    ELSE
    LET fuel_changes ==
            IF Len(fuel_df) >= 2
            THEN LET latest_fuel == fuel_df[1]
                     previous_fuel == fuel_df[2]
                 IN  [k \in FuelKeys |->
                        CASE k = "jet_fuel_change" ->
                                PctChange(latest_fuel.jet_fuel, previous_fuel.jet_fuel)
                          [] k = "brent_change" ->
                                PctChange(latest_fuel.brent_crude, previous_fuel.brent_crude)
                          [] k = "wti_change" ->
                                PctChange(latest_fuel.wti_crude, previous_fuel.wti_crude)]
            ELSE <<>>
        currency_changes ==
            IF Len(currency_df) >= 2
            THEN LET latest_currency == currency_df[1]
                     previous_currency == currency_df[2]
                 IN  [k \in CurrencyKeys |->
                        CASE k = "usd_inr_change" ->
                                PctChange(latest_currency.usd_inr, previous_currency.usd_inr)
                          [] k = "eur_inr_change" ->
                                PctChange(latest_currency.eur_inr, previous_currency.eur_inr)
                          [] k = "gbp_inr_change" ->
                                PctChange(latest_currency.gbp_inr, previous_currency.gbp_inr)
                          [] k = "jpy_inr_change" ->
                                PctChange(latest_currency.jpy_inr, previous_currency.jpy_inr)]
            ELSE <<>>
    IN  fuel_changes @@ currency_changes

\* changes.get(key, 0)
GetChange(changes, key) == IF key \in DOMAIN changes THEN changes[key] ELSE ZeroChange

\* ----------------------------------------------------- Signal Classifier
\* Mutant for C6: the upper threshold taken inclusive
FuelSignal_Inclusive(jet_change, fp) ==
    IF ~LT(jet_change, 2, 1, fp) /\ jet_change.kind # "nan" THEN "HIGH_HEDGE"
    ELSE IF GT(jet_change, 1, 2, fp) THEN "MODERATE_HEDGE"
    ELSE IF LT(jet_change, -1, 1, fp) THEN "LOW_HEDGE"
    ELSE "MONITOR"

FuelSignal(jet_change, fp) ==
    IF GT(jet_change, 2, 1, fp) THEN "HIGH_HEDGE"
    ELSE IF GT(jet_change, 1, 2, fp) THEN "MODERATE_HEDGE"
    ELSE IF LT(jet_change, -1, 1, fp) THEN "LOW_HEDGE"
    ELSE "MONITOR"

\* Mutant for C7: the sign of the change is kept
CurrencySignal_Signed(usd_change, fp) ==
    IF GT(usd_change, 1, 1, fp) THEN "HIGH_VOLATILITY"
    ELSE IF GT(usd_change, 3, 10, fp) THEN "MODERATE_VOLATILITY"
    ELSE "STABLE"

CurrencySignal(usd_change, fp) ==
    IF GT(AbsChange(usd_change), 1, 1, AbsErr(usd_change, fp)) THEN "HIGH_VOLATILITY"
    ELSE IF GT(AbsChange(usd_change), 3, 10, AbsErr(usd_change, fp))
    THEN "MODERATE_VOLATILITY"
    ELSE "STABLE"

\* ------------------------------------------------------- dashboard run
Head2(df) == SubSeq(df, 1, Min(Len(df), 2))

\* The sides of the floats of the two changes the recommendations read
NoSide == [jet |-> 0, usd |-> 0]

NotRendered(state, ld) ==
    [ state |-> state, none |-> ld.none,
      nfuel |-> Len(ld.fuel_df), ncurrency |-> Len(ld.currency_df),
      fuel_head |-> <<>>, currency_head |-> <<>>, changes |-> <<>>,
      fp |-> NoSide, fuel_signal |-> "none", currency_signal |-> "none" ]

\* What one run of the dashboard script meets: whether the store can be
\* opened, the order SQLite gives rows of equal timestamp, whether the
\* pandas installed is a strict one, and the side of the float of each of
\* the two changes, each on its own.
Loads ==
    { [reachable |-> FALSE, order |-> "rowid", strict |-> FALSE, fp |-> NoSide] }
    \cup { [reachable |-> TRUE, order |-> o, strict |-> s, fp |-> [jet |-> j, usd |-> u]] :
                o \in TieOrders, s \in BOOLEAN, j \in FloatErr, u \in FloatErr }

\* main of the dashboard from the second SELECT of load_data on: the two
\* early returns, then the changes, the metrics and the two recommendations.
RenderMain(fuel_read, db, io) ==
    LET ld == load_data(fuel_read, db, io.order, io.strict)
    IN  IF ld.none THEN NotRendered("cannot_load", ld)
        ELSE IF Len(ld.fuel_df) = 0 \/ Len(ld.currency_df) = 0
        THEN NotRendered("no_data", ld)
        ELSE LET changes == calculate_price_changes(ld.fuel_df, ld.currency_df)
                 jet_change == GetChange(changes, "jet_fuel_change")
                 usd_change == GetChange(changes, "usd_inr_change")
             IN  [ state |-> "rendered", none |-> FALSE,
                   nfuel |-> Len(ld.fuel_df), ncurrency |-> Len(ld.currency_df),
                   fuel_head |-> Head2(ld.fuel_df),
                   currency_head |-> Head2(ld.currency_df),
                   changes |-> changes,
                   fp |-> [jet |-> IF \E t \in {<<2, 1>>, <<1, 2>>, <<-1, 1>>} :
                                          OnThreshold(jet_change, t[1], t[2])
                                   THEN io.fp.jet ELSE 0,
                           usd |-> IF \E t \in {<<1, 1>>, <<3, 10>>} :
                                          OnThreshold(AbsChange(usd_change), t[1], t[2])
                                   THEN io.fp.usd ELSE 0],
                   fuel_signal |-> FuelSignal(jet_change, io.fp.jet),
                   currency_signal |-> CurrencySignal(usd_change, io.fp.usd) ]

\* One run of the script main() without the button, from the checkbox on:
\* with "Auto-refresh every 5 minutes" checked the run sleeps and reruns
\* without loading or drawing anything. db1 is the store as the first
\* SELECT finds it, db2 as the second one does.
NoFrames == [none |-> FALSE, fuel_df |-> <<>>, currency_df |-> <<>>]

main(db1, db2, auto_refresh, io) ==
    IF auto_refresh THEN NotRendered("sleeping", NoFrames)
    ELSE RenderMain(ReadFuel(db1, io.reachable, io.order, io.strict), db2, io)
\* ------------------------------------------------------- initial stores
\* The store is created and may have been filled before the system starts.
\* Rows of the initial histories are rows the collector writes for the
\* quotes given.
LiveFuelRow(brent, wti, ts) ==
    get_live_fuel_prices([fuel |-> [raise |-> FALSE, brent |-> <<brent>>, wti |-> <<wti>>],
                          draw |-> SameDraw(0), fp |-> NoErr], ts).obs

PairRow(usd, ts) ==
    SourceB([QuotesAll EXCEPT !.usd = Quote(usd)], NoErr, ts).obs

\* Two successive closes of Brent and WTI (both the same) and of USD/INR
\* whose changes land in and on the edges of every band of the signals.
BandQuotes ==
    << [crude0 |-> 5000000, crude1 |-> 5125000, usd0 |-> 800000, usd1 |-> 810000],  \* +2.5  +1.25
       [crude0 |-> 5000000, crude1 |-> 5100000, usd0 |-> 800000, usd1 |-> 808000],  \* +2.0  +1.0
       [crude0 |-> 5000000, crude1 |-> 5025000, usd0 |-> 800000, usd1 |-> 802400],  \* +0.5  +0.3
       [crude0 |-> 5000000, crude1 |-> 4950000, usd0 |-> 800000, usd1 |-> 796000],  \* -1.0  -0.5
       [crude0 |-> 5000000, crude1 |-> 4925000, usd0 |-> 800000, usd1 |-> 790000] >>  \* -1.5  -1.25

Tables(fuel_rows, currency_rows) ==
    [ fuel_table |-> TRUE, currency_table |-> TRUE,
      fuel_prices |-> fuel_rows, currency_rates |-> currency_rows ]

LongHistory ==
    Tables([i \in 1..ReadLimit |-> LiveFuelRow(5000000 + 1000 * i, 5000000, i)],
           [i \in 1..ReadLimit |-> PairRow(800000 + 100 * i, i)])

NoTables ==
    [fuel_table |-> FALSE, currency_table |-> FALSE,
     fuel_prices |-> <<>>, currency_rates |-> <<>>]

FuelTableOnly == [NoTables EXCEPT !.fuel_table = TRUE]

BandStore(k) ==
    Tables(<<LiveFuelRow(BandQuotes[k].crude0, BandQuotes[k].crude0, 1),
             LiveFuelRow(BandQuotes[k].crude1, BandQuotes[k].crude1, 2)>>,
           <<PairRow(BandQuotes[k].usd0, 1), PairRow(BandQuotes[k].usd1, 2)>>)

\* One record per series, stamped within a second (a text with a fraction)
OneRecord ==
    Tables(<<LiveFuelRow(BandQuotes[1].crude0, BandQuotes[1].crude0, 1)>>,
           <<PairRow(BandQuotes[1].usd0, 1)>>)

InitialStores ==
    { NoTables, FuelTableOnly, Tables(<<>>, <<>>),
      Tables(<<LiveFuelRow(5000000, 5000000, 1)>>,
             <<PairRow(800000, 1), PairRow(804000, 2)>>),
      Tables(<<LiveFuelRow(5000000, 5000000, 1), LiveFuelRow(5050000, 5050000, 2)>>,
             <<PairRow(800000, 1)>>),
      LongHistory }
    \cup { BandStore(k) : k \in DOMAIN BandQuotes }

\* ------------------------------------------------------------ processes
\* The collector runs as a process of its own: started from a shell or a
\* scheduler ("cli"), or by the dashboard's button as a child process
\* ("child"). Nothing keeps the two from running at the same time.
Procs == {"cli", "child"}

\* The result of collect_and_store_realtime_data before the store step
NoOut ==
    [attempted |-> FALSE, store_raised |-> FALSE, print_raised |-> FALSE, success |-> FALSE]

Idle ==
    [pc |-> "idle", net |-> <<>>, fuel |-> <<>>, currency |-> <<>>, out |-> NoOut,
     nfuel_before |-> 0, ncurrency_before |-> 0]

\* No dashboard run between its two SELECTs
NoRead == [order |-> "none", strict |-> FALSE, fuel_read |-> <<>>]

NoCycle ==
    [ kind |-> "none", proc |-> "none", net |-> <<>>, fault |-> "none",
      fuel |-> <<>>, currency |-> <<>>,
      attempted |-> FALSE, store_raised |-> FALSE, print_raised |-> FALSE,
      success |-> FALSE, returncode |-> 0, reported |-> FALSE,
      nfuel_before |-> 0, ncurrency_before |-> 0 ]

NoView == NotRendered("never", NoFrames)

\* The wall clock starts at the newest timestamp of the store.
Newest(rows) == IF rows = <<>> THEN 0 ELSE rows[Len(rows)].timestamp

InitWith(stores, worlds) ==
    /\ store \in stores
    /\ world \in worlds
    /\ clock = IF Newest(store.fuel_prices) > Newest(store.currency_rates)
               THEN Newest(store.fuel_prices) ELSE Newest(store.currency_rates)
    /\ procs = [p \in Procs |-> Idle]
    /\ cycle = NoCycle
    /\ dash = "idle"
    /\ frames = NoRead
    /\ view = NoView
    /\ past = [overlap |-> FALSE, setbacks |-> 0, reads |-> 0]

\* The runs explored. Each world opens one side of what the outside may do
\* and keeps the others narrow; every world has every action.
OneLoad == {[reachable |-> TRUE, order |-> "rowid", strict |-> FALSE, fp |-> NoSide]}

\* the sources answering in part or not at all, one collector at a time
SourcesWorld ==
    [scenarios |-> {LivePartTable, LiveTie, UsdOnly, AllDownMixed, AllDownNarrow},
     concurrent |-> FALSE, setbacks |-> 0,
     loads |-> OneLoad, auto_refresh |-> {FALSE}, pipe |-> "utf8"]

\* the store accepting or refusing the write, one collector at a time
StoreWorld ==
    [scenarios |-> {LiveAll, LiveZero, StoreClosed, InsertRejected},
     concurrent |-> FALSE, setbacks |-> 0,
     loads |-> OneLoad, auto_refresh |-> {FALSE}, pipe |-> "utf8"]

\* the clock set back between the readings
ClockWorld ==
    [scenarios |-> {LiveAll}, concurrent |-> FALSE, setbacks |-> MaxSetbacks,
     loads |-> {io \in Loads : io.reachable /\ ~io.strict /\ io.fp = NoSide},
     auto_refresh |-> {FALSE}, pipe |-> "utf8"]

\* two collectors at the same time
OverlapWorld ==
    [scenarios |-> {LiveAll, LiveTie, InsertRejected, StoreLocked},
     concurrent |-> TRUE, setbacks |-> 0,
     loads |-> OneLoad, auto_refresh |-> {FALSE}, pipe |-> "utf8"]

\* every way a dashboard run can go
DashWorld ==
    [scenarios |-> {LiveAll}, concurrent |-> FALSE, setbacks |-> 0,
     loads |-> {io \in Loads : ~io.strict}, auto_refresh |-> BOOLEAN, pipe |-> "utf8"]

\* a pandas that rejects a column of timestamps with and without fraction
ParseWorld ==
    [scenarios |-> {LiveAll}, concurrent |-> FALSE, setbacks |-> 0,
     loads |-> {io \in Loads : io.reachable /\ io.strict /\ io.fp = NoSide},
     auto_refresh |-> {FALSE}, pipe |-> "utf8"]

\* a dashboard process whose locale decodes the child's output as ASCII
PipeWorld ==
    [scenarios |-> {LiveAll, AllDownNarrow, InsertRejected},
     concurrent |-> FALSE, setbacks |-> 0,
     loads |-> OneLoad, auto_refresh |-> {FALSE}, pipe |-> "ascii"]

\* a history longer than the dashboard reads
HistoryWorld ==
    [scenarios |-> {LiveAll}, concurrent |-> FALSE, setbacks |-> 0,
     loads |-> {io \in Loads : ~io.strict /\ io.fp = NoSide}, auto_refresh |-> {FALSE}, pipe |-> "utf8"]

Init ==
    \/ InitWith({Tables(<<>>, <<>>)}, {SourcesWorld})
    \/ InitWith({FuelTableOnly, BandStore(1)}, {StoreWorld})
    \/ InitWith({BandStore(1)}, {ClockWorld, OverlapWorld, PipeWorld})
    \/ InitWith(InitialStores \ {LongHistory}, {DashWorld})
    \/ InitWith({LongHistory}, {HistoryWorld})
    \/ InitWith({Tables(<<>>, <<>>), OneRecord}, {ParseWorld})

\* --------------------------------------------------------------- actions
\* The record kept of a collector process p that went through its store
\* step; `proc` tells how the dashboard saw its child end.
CycleRecord(p, proc) ==
    [ kind |-> p, proc |-> proc, net |-> procs[p].net, fault |-> procs[p].net.fault,
      fuel |-> procs[p].fuel, currency |-> procs[p].currency,
      attempted |-> procs[p].out.attempted, store_raised |-> procs[p].out.store_raised,
      print_raised |-> procs[p].out.print_raised, success |-> procs[p].out.success,
      returncode |-> CollectorExitCode(procs[p].out.success),
      reported |-> IF p = "child"
                   THEN collect_realtime_data(proc, CollectorExitCode(procs[p].out.success))
                   ELSE FALSE,
      nfuel_before |-> procs[p].nfuel_before,
      ncurrency_before |-> procs[p].ncurrency_before ]

\* The child killed by the timeout before its store step, or never started.
FailedRun(proc, db) ==
    [ NoCycle EXCEPT !.kind = "child", !.proc = proc,
                     !.net = procs["child"].net,
                     !.fuel = procs["child"].fuel,
                     !.currency = procs["child"].currency,
                     !.reported = collect_realtime_data(proc, 0),
                     !.nfuel_before = Len(db.fuel_prices),
                     !.ncurrency_before = Len(db.currency_rates) ]

\* A collector process starts and runs up to the end of get_live_fuel_prices
\* (line 176): the observation is stamped with the clock as it then reads.
\* The child is started by a dashboard run in which the button was pressed;
\* that run blocks in subprocess.run.
FetchFuel(p) ==
    /\ procs[p].pc = "idle"
    /\ past.reads < MaxReads
    /\ world.concurrent \/ \A q \in Procs : procs[q].pc = "idle"
    /\ p = "child" => dash = "idle"
    /\ \E net \in world.scenarios :
          procs' = [procs EXCEPT ![p] =
                      [Idle EXCEPT !.pc = "fuel", !.net = net,
                                   !.fuel = get_live_fuel_prices(net, clock + 1)]]
    /\ clock' = clock + 1
    /\ dash' = IF p = "child" THEN "waiting" ELSE dash
    /\ past' = [past EXCEPT !.reads = @ + 1,
                            !.overlap = @ \/ \E q \in Procs \ {p} : procs[q].pc # "idle"]
    /\ UNCHANGED <<store, world, cycle, frames, view>>

\* get_live_currency_rates (line 177)
FetchCurrency(p) ==
    /\ procs[p].pc = "fuel"
    /\ past.reads < MaxReads
    /\ procs' = [procs EXCEPT ![p].pc = "currency",
                              ![p].currency =
                                  get_live_currency_rates(procs[p].net, clock + 1)]
    /\ clock' = clock + 1
    /\ past' = [past EXCEPT !.reads = @ + 1]
    /\ UNCHANGED <<store, world, cycle, dash, frames, view>>

\* Lines 179-205: the writer with its COMMIT, then the report. From the
\* COMMIT on the rows are there for every other process, while this one
\* still has to print, return and end.
Store(p) ==
    /\ procs[p].pc = "currency"
    /\ LET net == procs[p].net
           out == collect_and_store_realtime_data(store, procs[p].fuel,
                         procs[p].currency, net.fault, net.stdout)
       IN  /\ store' = out.db
           /\ procs' = [procs EXCEPT
                           ![p].pc = "stored",
                           ![p].out = [attempted |-> out.attempted,
                                       store_raised |-> out.store_raised,
                                       print_raised |-> out.print_raised,
                                       success |-> out.success],
                           ![p].nfuel_before = Len(store.fuel_prices),
                           ![p].ncurrency_before = Len(store.currency_rates)]
    /\ UNCHANGED <<clock, world, cycle, dash, frames, view, past>>

\* The end of main and of the process (lines 217-228); subprocess.run
\* returns to the dashboard that waits for its child, having decoded what
\* the child wrote.
Exit(p) ==
    /\ procs[p].pc = "stored"
    /\ p = "child" => ~DecodeRaises(procs[p].out.success, world.pipe)
    /\ cycle' = CycleRecord(p, "exited")
    /\ procs' = [procs EXCEPT ![p] = Idle]
    /\ dash' = IF p = "child" THEN "run" ELSE dash
    /\ UNCHANGED <<store, clock, world, frames, view, past>>

\* subprocess.run kills the child when the timeout (30 s) expires: before
\* its store step, or after its COMMIT and before its end.
Timeout ==
    /\ procs["child"].pc \in {"fuel", "currency", "stored"}
    /\ cycle' = IF procs["child"].pc = "stored" THEN CycleRecord("child", "timeout")
                ELSE FailedRun("timeout", store)
    /\ procs' = [procs EXCEPT !["child"] = Idle]
    /\ dash' = "run"
    /\ UNCHANGED <<store, clock, world, frames, view, past>>

\* subprocess.run raises after the child has run to its end (exit status
\* 0, its rows committed): what the child wrote cannot be decoded.
DecodeError ==
    /\ procs["child"].pc = "stored"
    /\ DecodeRaises(procs["child"].out.success, world.pipe)
    /\ cycle' = CycleRecord("child", "error")
    /\ procs' = [procs EXCEPT !["child"] = Idle]
    /\ dash' = "run"
    /\ UNCHANGED <<store, clock, world, frames, view, past>>

\* subprocess.run raises: the child could not be started.
SpawnError ==
    /\ procs["child"].pc = "idle" /\ dash = "idle"
    /\ world.concurrent \/ \A q \in Procs : procs[q].pc = "idle"
    /\ cycle' = FailedRun("error", store)
    /\ dash' = "run"
    /\ UNCHANGED <<store, clock, world, procs, frames, view, past>>

\* The collector run as a standalone process: main of realtime_data_collector.py.
RunCollector ==
    \/ FetchFuel("cli")
    \/ FetchCurrency("cli")
    \/ Store("cli")
    \/ Exit("cli")

\* The "Collect Live Data" button: collect_realtime_data runs the collector
\* as a child process and waits for it. Afterwards the script goes on to the
\* checkbox (st.rerun on success, the rest of the same run otherwise).
CollectLiveData ==
    \/ FetchFuel("child")
    \/ FetchCurrency("child")
    \/ Store("child")
    \/ Exit("child")
    \/ Timeout
    \/ DecodeError
    \/ SpawnError

\* A run of the dashboard script from the checkbox up to the first SELECT
\* of load_data: after the button, or on a page load or refresh. With
\* auto-refresh it ends in a rerun; without a fuel frame it ends with the
\* error message.
LoadFuel ==
    /\ dash \in {"idle", "run"}
    /\ \E auto_refresh \in world.auto_refresh, io \in world.loads :
          LET fuel_read == ReadFuel(store, io.reachable, io.order, io.strict)
          IN  IF auto_refresh \/ fuel_read.none
              THEN /\ view' = main(store, store, auto_refresh, io)
                   /\ dash' = IF auto_refresh THEN "run" ELSE "idle"
                   /\ frames' = NoRead
              ELSE /\ dash' = "loading"
                   /\ frames' = [order |-> io.order, strict |-> io.strict,
                                 fuel_read |-> fuel_read]
                   /\ view' = view
    /\ UNCHANGED <<store, clock, world, procs, cycle, past>>

\* The same run from the second SELECT on: the store is read as it is now,
\* on the same connection; the floats of the changes come about here.
LoadCurrency ==
    /\ dash = "loading"
    /\ \E io \in world.loads :
          /\ io.reachable /\ io.order = frames.order /\ io.strict = frames.strict
          /\ view' = RenderMain(frames.fuel_read, store, io)
    /\ dash' = "idle"
    /\ frames' = NoRead
    /\ UNCHANGED <<store, clock, world, procs, cycle, past>>

Render == LoadFuel \/ LoadCurrency

\* The wall clock is set back: the end of summer time, a correction of the
\* clock. datetime.now() is naive local time.
SetClockBack ==
    /\ past.setbacks < world.setbacks
    /\ clock' = clock - 2
    /\ past' = [past EXCEPT !.setbacks = @ + 1]
    /\ UNCHANGED <<store, world, procs, cycle, dash, frames, view>>

Next == RunCollector \/ CollectLiveData \/ Render \/ SetClockBack

Spec == Init /\ [][Next]_vars

\* ====================================================================
\* Properties
\* ====================================================================
\* The last collector process ran to its end and its end was seen (it was
\* not killed, not unstartable, not outlived by the timeout).
Ran == cycle.kind # "none" /\ cycle.proc = "exited"

Last(seq) == seq[Len(seq)]

\* load_data with no commit between its two SELECTs
LoadNow(reachable, order, strict) ==
    load_data(ReadFuel(store, reachable, order, strict), store, order, strict)

\* Failure of a source as the network answered it: an error or an empty
\* response.
FuelDown(net) ==
    net.fuel.raise \/ Empty(net.fuel.brent) \/ Empty(net.fuel.wti)

SourceADown(net) ==
    \/ net.a.raise
    \/ net.a.status # 200
    \/ \E code \in {"EUR", "GBP", "JPY"} :
            code \in DOMAIN net.a.rates /\ net.a.rates[code] = 0

SourceBDown(net) ==
    \/ \E p \in {"usd", "eur", "gbp", "jpy"} : net.b[p].raise
    \/ Empty(net.b.usd.hist)

\* C1: when the persistence step of a cycle fails, the cycle is reported as
\* failed: collect_and_store_realtime_data does not return success and the
\* dashboard trigger, which reads the exit code, does not report success.
C1_PersistFailureReported ==
    Ran /\ cycle.store_raised =>
        /\ ~cycle.success
        /\ cycle.kind = "child" => ~cycle.reported

\* The row a cycle appended to a series that held n rows before its write
AppendedAt(rows, n, obs) == Len(rows) > n /\ rows[n + 1] = obs

\* C2: a cycle in which every live source of both domains fails still
\* produces one fuel and one currency observation, every field within its
\* fallback interval, reports success and, the store accepting the write,
\* appends exactly that one row to each series.
InFallbackFuel(o) ==
    /\ o.jet_fuel \in 2300000..2600000
    /\ o.brent_crude \in 6000..7000
    /\ o.wti_crude \in 5500..6500

InFallbackCurrency(o) ==
    /\ o.usd_inr \in 8800..9000
    /\ o.eur_inr \in 10200..10500
    /\ o.gbp_inr \in 11700..12000
    /\ o.jpy_inr \in 570000..580000

AllSourcesDown(net) == FuelDown(net) /\ SourceADown(net) /\ SourceBDown(net)

C2_AllSourcesFail ==
    Ran /\ AllSourcesDown(cycle.net) =>
        /\ Truthy(cycle.fuel.obs) /\ Truthy(cycle.currency.obs)
        /\ InFallbackFuel(cycle.fuel.obs)
        /\ InFallbackCurrency(cycle.currency.obs)
        /\ cycle.success
        /\ ~cycle.store_raised =>
              /\ AppendedAt(store.fuel_prices, cycle.nfuel_before, cycle.fuel.obs)
              /\ AppendedAt(store.currency_rates, cycle.ncurrency_before,
                            cycle.currency.obs)

\* C3 as stated: sources are tried in order, the first complete response
\* wins, and a source that raises or answers with an empty or malformed
\* payload - a rate table lacking an INR, EUR, GBP or JPY entry included -
\* counts as failed and is skipped.
TableIncomplete(net) ==
    ~net.a.raise /\ net.a.status = 200
    /\ {"INR", "EUR", "GBP", "JPY"} \ DOMAIN net.a.rates # {}

C3_MalformedTableSkipped ==
    Ran /\ TableIncomplete(cycle.net) => cycle.currency.used # "A"

\* C3 amended: sources are tried in the fixed order; the result is that of
\* the first source that does not fail; a later source is consulted only if
\* every earlier one failed and the fallback is used only if all failed. A
\* rate table lacking entries is no failure: Source A answers with the
\* defaults 83.0, 0.85, 0.73, 110.0 in their place.
C3_SourceOrder ==
    Ran =>
        LET net == cycle.net
            f == cycle.fuel
            c == cycle.currency
        IN  /\ f.consulted = <<"yahoo">>
            /\ f.used = IF FuelDown(net) THEN "fallback" ELSE "yahoo"
            /\ c.consulted = IF SourceADown(net) THEN <<"A", "B">> ELSE <<"A">>
            /\ c.used = IF ~SourceADown(net) THEN "A"
                         ELSE IF ~SourceBDown(net) THEN "B" ELSE "fallback"
            /\ c.used = "A" /\ "INR" \notin DOMAIN net.a.rates => c.obs.usd_inr = 8300
            /\ c.used = "A" /\ {"INR", "JPY"} \cap DOMAIN net.a.rates = {} =>
                    c.obs.jpy_inr = RoundDiv(830000000, 1100, net.fp.jpy_inr)
            /\ c.used = "A" /\ DOMAIN net.a.rates = {"INR", "EUR", "GBP", "JPY"} =>
                    /\ c.obs.usd_inr = RoundDiv(net.a.rates.INR, 10, net.fp.usd_inr)
                    /\ c.obs.eur_inr = RoundDiv(net.a.rates.INR * 10, net.a.rates.EUR,
                                                net.fp.eur_inr)
            /\ c.used = "B" => c.obs.usd_inr = Round2(Close(net.b.usd.hist), net.fp.usd_inr)
            /\ c.used = "fallback" => InFallbackCurrency(c.obs)
            /\ f.used = "fallback" => InFallbackFuel(f.obs)
            /\ f.used = "yahoo" =>
                    f.obs.brent_crude = RoundClose(Close(net.fuel.brent), net.fp.brent_crude)

C3_Witness ==
    /\ Ran /\ TableIncomplete(cycle.net)
    /\ cycle.currency.used = "A" /\ cycle.currency.obs.usd_inr = 8300
    /\ ~cycle.store_raised /\ Len(store.currency_rates) > cycle.ncurrency_before

\* C4: in Source B, reached after Source A failed, a pair whose quote fails,
\* by an empty history or by an error, is replaced by its literal (eur 90.0,
\* gbp 105.0, jpy 0.55) while the other pairs keep their live values; the
\* fetch does not fail or fall through to the fallback.
PairFailed(q) == q.raise \/ Empty(q.hist)

C4_PairFailureIsolated ==
    LET b == cycle.net.b
        o == cycle.currency.obs
        fp == cycle.net.fp
    IN  /\ Ran /\ SourceADown(cycle.net)
        /\ ~PairFailed(b.usd)
        /\ \E p \in {"eur", "gbp", "jpy"} : PairFailed(b[p])
        => /\ cycle.currency.used = "B"
           /\ o.usd_inr = Round2(Close(b.usd.hist), fp.usd_inr)
           /\ o.eur_inr = IF PairFailed(b.eur) THEN 9000
                          ELSE Round2(Close(b.eur.hist), fp.eur_inr)
           /\ o.gbp_inr = IF PairFailed(b.gbp) THEN 10500
                          ELSE Round2(Close(b.gbp.hist), fp.gbp_inr)
           /\ o.jpy_inr = IF PairFailed(b.jpy) THEN 550000
                          ELSE Round6(Close(b.jpy.hist), fp.jpy_inr)

\* C5: in every fuel observation a cycle produces and stores, live or
\* fallback, jet_fuel is round((brent + wti) / 2 * 1.35, 6) of that
\* observation's benchmark prices (as stored, or as quoted in that cycle).
JetOfStored(o) == (o.brent_crude + o.wti_crude) * 6750

C5_JetDerived ==
    Ran =>
        LET o == cycle.fuel.obs
        IN  \/ o.jet_fuel = JetOfStored(o)
            \/ /\ cycle.fuel.used = "yahoo"
               /\ o.jet_fuel = JetFuelPrice(Close(cycle.net.fuel.brent),
                                             Close(cycle.net.fuel.wti),
                                             cycle.net.fp.jet_fuel)

\* The bands of the two signals as the specification words them, on the
\* change c the calculator returned (fp: the side of that float).
LE(c, tn, td, fp) == c.kind # "nan" /\ ~GT(c, tn, td, fp)

FuelBand(c, fp) ==
    IF GT(c, 2, 1, fp) THEN "HIGH_HEDGE"
    ELSE IF GT(c, 1, 2, fp) /\ LE(c, 2, 1, fp) THEN "MODERATE_HEDGE"
    ELSE IF LT(c, -1, 1, fp) THEN "LOW_HEDGE"
    ELSE "MONITOR"

CurrencyBand(c, fp) ==
    IF GT(AbsChange(c), 1, 1, AbsErr(c, fp)) THEN "HIGH_VOLATILITY"
    ELSE IF GT(AbsChange(c), 3, 10, AbsErr(c, fp)) /\ LE(AbsChange(c), 1, 1, AbsErr(c, fp))
    THEN "MODERATE_VOLATILITY"
    ELSE "STABLE"

\* The change of d tenths of a percent, as the calculator returns it for a
\* previous value of 1000 units (-1000 for the same change of a negative price)
Tenths(d) == PctChange(1000 + d, 1000)
TenthsNeg(d) == PctChange(-1000 - d, -1000)

NonFinite == {PctChange(1, 0), PctChange(-1, 0), PctChange(0, 0)}

\* The float of a change of d tenths, lying on the side fp of it, is above
\* (below) t tenths
Above(d, t, fp) == d > t \/ (d = t /\ fp > 0)
Below(d, t, fp) == d < t \/ (d = t /\ fp < 0)

\* The fuel signal over the grid of changes, the zero default and the
\* non-finite changes
FuelSignalOnGrid ==
    /\ \A d \in -GridMax..GridMax, fp \in FloatErr :
          \A c \in {Tenths(d), TenthsNeg(d)} :
            FuelSignal(c, fp) = IF Above(d, 20, fp) THEN "HIGH_HEDGE"
                                ELSE IF Above(d, 5, fp) /\ ~Above(d, 20, fp)
                                THEN "MODERATE_HEDGE"
                                ELSE IF Below(d, -10, fp) THEN "LOW_HEDGE"
                                ELSE "MONITOR"
    /\ \A fp \in FloatErr : FuelSignal(ZeroChange, fp) = "MONITOR"
    /\ \A c \in NonFinite, fp \in FloatErr :
          FuelSignal(c, fp) \in {"HIGH_HEDGE", "MODERATE_HEDGE", "LOW_HEDGE", "MONITOR"}

\* C6: the fuel signal is a total function of the jet-fuel change c alone:
\* c > 2 HIGH_HEDGE; 0.5 < c <= 2 MODERATE_HEDGE; c < -1 LOW_HEDGE; every
\* other c, the edges 0.5 and -1 and the zero default included, MONITOR.
C6_FuelSignal ==
    /\ FuelSignalOnGrid
    /\ view.state = "rendered" =>
          view.fuel_signal = FuelBand(GetChange(view.changes, "jet_fuel_change"), view.fp.jet)

\* A dashboard run that drew MODERATE_HEDGE for a change of exactly +2 %
C6_Witness ==
    /\ view.state = "rendered" /\ view.fp.jet = 0
    /\ "jet_fuel_change" \in DOMAIN view.changes
    /\ view.changes["jet_fuel_change"].kind = "finite"
    /\ view.changes["jet_fuel_change"].prev % 50 = 0
    /\ view.changes["jet_fuel_change"].diff = view.changes["jet_fuel_change"].prev \div 50
    /\ view.fuel_signal = "MODERATE_HEDGE"

\* The currency signal over the grid of changes, the zero default and the
\* non-finite changes
CurrencySignalOnGrid ==
    /\ \A d \in -GridMax..GridMax, fp \in FloatErr :
          \A c \in {Tenths(d), TenthsNeg(d)} :
            LET afp == IF d < 0 THEN -fp ELSE fp
            IN  CurrencySignal(c, fp) =
                    IF Above(Abs(d), 10, afp) THEN "HIGH_VOLATILITY"
                    ELSE IF Above(Abs(d), 3, afp) /\ ~Above(Abs(d), 10, afp)
                    THEN "MODERATE_VOLATILITY"
                    ELSE "STABLE"
    /\ \A fp \in FloatErr : CurrencySignal(ZeroChange, fp) = "STABLE"
    /\ \A c \in NonFinite, fp \in FloatErr :
          CurrencySignal(c, fp) \in {"HIGH_VOLATILITY", "MODERATE_VOLATILITY", "STABLE"}

\* C7: the currency signal is a total function of |c| alone, c the USD/INR
\* change: |c| > 1 HIGH_VOLATILITY; 0.3 < |c| <= 1 MODERATE_VOLATILITY;
\* every other value, |c| = 0.3 and the zero default included, STABLE.
C7_CurrencySignal ==
    /\ CurrencySignalOnGrid
    /\ view.state = "rendered" =>
          view.currency_signal =
              CurrencyBand(GetChange(view.changes, "usd_inr_change"), view.fp.usd)

\* A dashboard run that drew MODERATE_VOLATILITY for a fall of USD/INR while
\* the fuel signal of the same run is LOW_HEDGE or MONITOR
C7_Witness ==
    /\ view.state = "rendered"
    /\ "usd_inr_change" \in DOMAIN view.changes
    /\ view.changes["usd_inr_change"].kind = "finite"
    /\ view.changes["usd_inr_change"].diff < 0
    /\ view.currency_signal = "MODERATE_VOLATILITY"
    /\ view.fuel_signal \in {"LOW_HEDGE", "MONITOR"}

\* C8: calculate_price_changes never fails and leaves every key of a series
\* of fewer than 2 records absent from the mapping (not present with 0);
\* whether the keys of a series are there depends on its record count.
KeysOf(changes, keys) == DOMAIN changes \cap keys

C8_ShortSeries(fuel_df, currency_df) ==
    LET changes == calculate_price_changes(fuel_df, currency_df)
    IN  /\ DOMAIN changes \subseteq FuelKeys \cup CurrencyKeys
        /\ Len(fuel_df) < 2 => KeysOf(changes, FuelKeys) = {}
        /\ Len(currency_df) < 2 => KeysOf(changes, CurrencyKeys) = {}
        /\ Len(fuel_df) >= 2 /\ Len(currency_df) >= 1 => KeysOf(changes, FuelKeys) = FuelKeys
        /\ Len(currency_df) >= 2 /\ Len(fuel_df) >= 1 =>
                KeysOf(changes, CurrencyKeys) = CurrencyKeys

C8_ShortSeriesKeysAbsent ==
    /\ LET ld == LoadNow(TRUE, "rowid", FALSE)
       IN  \A i \in 0..Min(Len(ld.fuel_df), 3), j \in 0..Min(Len(ld.currency_df), 3) :
              C8_ShortSeries(SubSeq(ld.fuel_df, 1, i), SubSeq(ld.currency_df, 1, j))
    /\ view.state = "rendered" =>
          /\ view.nfuel < 2 => KeysOf(view.changes, FuelKeys) = {}
          /\ view.ncurrency < 2 => KeysOf(view.changes, CurrencyKeys) = {}
          /\ view.nfuel >= 2 => KeysOf(view.changes, FuelKeys) = FuelKeys
          /\ view.ncurrency >= 2 => KeysOf(view.changes, CurrencyKeys) = CurrencyKeys

\* A dashboard run over one fuel record and two or more currency records
C8_Witness ==
    /\ view.state = "rendered"
    /\ view.nfuel = 1 /\ view.ncurrency >= 2
    /\ KeysOf(view.changes, FuelKeys) = {}
    /\ KeysOf(view.changes, CurrencyKeys) = CurrencyKeys

\* C9: for a series of 2 or more records the change of an instrument is
\* (latest - previous) / previous * 100 over the two newest records; when
\* the previous value is zero the change is zero or absent, never an error
\* or a non-finite value that reaches the signals.
ChangeIs(changes, key, latest, previous) ==
    IF previous # 0
    THEN /\ key \in DOMAIN changes
         /\ changes[key].kind = "finite"
         /\ changes[key].diff = latest - previous
         /\ changes[key].prev = previous
    ELSE \/ key \notin DOMAIN changes
         \/ changes[key].kind = "finite" /\ changes[key].diff = 0

C9_ChangeFormula ==
    /\ LET c == PctChange(2550000, 2500000)      \* 2.50 -> 2.55 is +2.00 %
       IN  c.kind = "finite" /\ c.diff * 100 = 2 * c.prev
    /\ view.state = "rendered" /\ view.nfuel >= 2 =>
          LET l == view.fuel_head[1]
              p == view.fuel_head[2]
          IN  /\ ChangeIs(view.changes, "jet_fuel_change", l.jet_fuel, p.jet_fuel)
              /\ ChangeIs(view.changes, "brent_change", l.brent_crude, p.brent_crude)
              /\ ChangeIs(view.changes, "wti_change", l.wti_crude, p.wti_crude)
    /\ view.state = "rendered" /\ view.ncurrency >= 2 =>
          LET l == view.currency_head[1]
              p == view.currency_head[2]
          IN  /\ ChangeIs(view.changes, "usd_inr_change", l.usd_inr, p.usd_inr)
              /\ ChangeIs(view.changes, "eur_inr_change", l.eur_inr, p.eur_inr)
              /\ ChangeIs(view.changes, "gbp_inr_change", l.gbp_inr, p.gbp_inr)
              /\ ChangeIs(view.changes, "jpy_inr_change", l.jpy_inr, p.jpy_inr)

\* C10: load_data answers (None, None) when the store cannot be opened or a
\* table is missing, two empty frames when the tables hold no rows, and
\* otherwise at most the 100 newest rows of each table, newest first; main
\* branches on the two cases apart and draws no metric or signal in either.
NewestFirst(df, rows) ==
    /\ Len(df) = Min(Len(rows), ReadLimit)
    /\ \A k \in 1..(Len(df) - 1) : df[k].timestamp >= df[k + 1].timestamp
    /\ \A k \in 1..Len(df) : \E i \in 1..Len(rows) : rows[i] = df[k]
    /\ \A i \in 1..Len(rows) :
          \/ \E k \in 1..Len(df) : df[k] = rows[i]
          \/ Len(df) = ReadLimit /\ rows[i].timestamp <= df[Len(df)].timestamp

\* C10, for every order of equal timestamps and the pandas of the
\* behaviour: a store with both tables never gives (None, None).
C10_LoadOutcomes ==
    /\ \A order \in TieOrders, strict \in {io.strict : io \in world.loads} :
          /\ LoadNow(FALSE, order, strict).none
          /\ LET ld == LoadNow(TRUE, order, strict)
             IN  IF ~store.fuel_table \/ ~store.currency_table THEN ld.none
                 ELSE /\ ~ld.none
                      /\ NewestFirst(ld.fuel_df, store.fuel_prices)
                      /\ NewestFirst(ld.currency_df, store.currency_rates)
                      /\ store.fuel_prices = <<>> => Len(ld.fuel_df) = 0
                      /\ store.currency_rates = <<>> => Len(ld.currency_df) = 0
    /\ view.state \in {"cannot_load", "no_data", "rendered"} =>
          /\ view.state = "cannot_load" <=> view.none
          /\ view.state = "no_data" <=> ~view.none /\ (view.nfuel = 0 \/ view.ncurrency = 0)
          /\ view.state # "rendered" =>
                /\ DOMAIN view.changes = {}
                /\ view.fuel_signal = "none" /\ view.currency_signal = "none"
          /\ view.state = "rendered" =>
                view.fuel_signal # "none" /\ view.currency_signal # "none"

\* C11: both series are append-only. Every step keeps each record already
\* written, with its fields and at its position: a collection cycle adds at
\* most one record at the end of each series and drops no table, and a
\* step in which no collector process moves - a dashboard run (load_data,
\* calculate_price_changes, the signals) above all - leaves the store as it
\* was, however often it happens.
IsPrefix(s, t) == Len(s) <= Len(t) /\ SubSeq(t, 1, Len(s)) = s

AppendOnlyStep ==
    /\ IsPrefix(store.fuel_prices, store'.fuel_prices)
    /\ IsPrefix(store.currency_rates, store'.currency_rates)
    /\ Len(store'.fuel_prices) <= Len(store.fuel_prices) + 1
    /\ Len(store'.currency_rates) <= Len(store.currency_rates) + 1
    /\ store'.fuel_table = store.fuel_table
    /\ store'.currency_table = store.currency_table
    /\ (procs' = procs => store' = store)

C11_AppendOnly == [][AppendOnlyStep]_vars

\* Two cycles have run on a history of two records, both appended, and the
\* page drawn afterwards shows the whole series.
C11_Witness ==
    /\ Ran /\ ~cycle.store_raised
    /\ cycle.nfuel_before = 3 /\ Len(store.fuel_prices) = 4
    /\ cycle.ncurrency_before = 3 /\ Len(store.currency_rates) = 4
    /\ view.state = "rendered" /\ view.nfuel = 4 /\ view.ncurrency = 4

\* C12: within each series, in storage order, the timestamp of every record
\* is greater than or equal to that of the record appended before it, after
\* any sequence of collection cycles run one after another (no two of them
\* at the same time); a cycle stamps its fuel observation before its
\* currency observation and stores both afterwards.
TimestampsAscend(rows) ==
    \A i \in 1..(Len(rows) - 1) : rows[i].timestamp <= rows[i + 1].timestamp

C12_TimestampsAscend ==
    ~past.overlap =>
        /\ TimestampsAscend(store.fuel_prices)
        /\ TimestampsAscend(store.currency_rates)

\* C13: a collection cycle appends to both series together or to neither:
\* when either INSERT fails nothing of the cycle is stored. Every step adds
\* the same number of records (0 or 1) to the two series, so two series of
\* equal length stay of equal length after any sequence of cycles, and a
\* cycle whose writer raised has stored nothing.
Added(rows, rows_next) == Len(rows_next) - Len(rows)

BothOrNeitherStep ==
    /\ Added(store.fuel_prices, store'.fuel_prices)
          = Added(store.currency_rates, store'.currency_rates)
    /\ Added(store.fuel_prices, store'.fuel_prices) \in {0, 1}
    /\ (Len(store.fuel_prices) = Len(store.currency_rates)
          => Len(store'.fuel_prices) = Len(store'.currency_rates))
    /\ \A p \in Procs :
          procs[p].pc = "currency" /\ procs'[p].pc = "stored" /\ procs'[p].out.store_raised
              => store' = store

C13_BothOrNeither == [][BothOrNeitherStep]_vars

\* Two collector processes at the same time on two series of 2 records:
\* one committed its pair, the other found the store locked and raised at
\* its store step; it ended last and the series are of equal length.
C13_Witness ==
    /\ Ran /\ cycle.attempted /\ past.overlap
    /\ cycle.fault = "locked" /\ cycle.store_raised
    /\ cycle.nfuel_before = 3 /\ cycle.ncurrency_before = 3
    /\ Len(store.fuel_prices) = 3 /\ Len(store.currency_rates) = 3

====
